---- MODULE Spec2Model ----
(***************************************************************************)
(* Watson-Glaser WhatsApp bot: the webhook handler of src/index.js, its    *)
(* session store (in-memory fallback and Redis), the question selector and *)
(* the scorer.  sendWA and appendAttempt are called by src/index.js but    *)
(* defined only in the repository's other copy of the server               *)
(* (src/unnamed/part_000); the handler text of the two files is identical. *)
(*                                                                         *)
(* One inbound message is one step (Handle): the handler runs from its     *)
(* first await to its response, or to the call that rejects.  A text body  *)
(* is a sequence of one-character strings.  An optional value (a Map       *)
(* entry, a Redis key, the result of getSession, parseInt's NaN) is a      *)
(* sequence of length 0 or 1.                                              *)
(***************************************************************************)
EXTENDS Integers, Sequences, FiniteSets, TLC

VARIABLES
    redis,      \* TRUE: SESSION_STORE = "redis"; FALSE: redis is null (index.js:11)
    memStore,   \* the Map entry of the participant: <<>> or <<[value, expires]>>
    redisKey,   \* the Redis key of the participant: <<>> or <<[raw, expires]>>
    sheet,      \* the rows of the Questions sheet, as readQuestions maps them
    now,        \* Date.now(), in milliseconds
    last,       \* what the handler did with the latest inbound message
    written,    \* history: the value and time of the last setSession that resolved
    pick,       \* the arguments and result of a call of pickNextQuestion
    run,        \* history: messages handled since the one that started the run
    proc,       \* the handlers in flight when deliveries overlap, by request
    heap        \* the session objects those handlers hold, by reference

vars == <<redis, memStore, redisKey, sheet, now, last, written, pick, run, proc, heap>>

-----------------------------------------------------------------------------
(* Bounds of the model *)

\* Date.now() advances at most this many times in a behaviour.
MaxTicks == 3

(* Program constants *)

\* setSession(key, val, ttl = 3600)
DefaultTTL == 3600

SECTIONS == <<"Inference", "Assumptions", "Deduction", "Interpretation", "Arguments">>

\* One advance of the clock: exactly the session TTL, so that a read can fall
\* before, exactly on, and after the expiry stamp of a record.
TickMs == DefaultTTL * 1000

-----------------------------------------------------------------------------
(* Questions, as readQuestions returns them (stem, passage and difficulty   *)
(* are display text that no branch reads and are left out).  rationale is   *)
(* a one-element sequence, or <<>> for a row that ends before column G.     *)

Question(id, section, options, correct, rationale) ==
    [id |-> id, section |-> section, options |-> options,
     correct |-> correct, rationale |-> rationale]

\* session.currentQ of a session that never had one (the default session)
\* and of one whose answer was recorded (currentQ = null).
UndefinedQ == Question("undefined", "", <<>>, 0, <<>>)
NullQ == Question("null", "", <<>>, 0, <<>>)

Falsy(q) == q = UndefinedQ \/ q = NullQ

Q1 == Question("q1", "Inference", <<"a", "b">>, 1, <<"because1">>)
Q2 == Question("q2", "Assumptions", <<"a", "b">>, 2, <<"">>)
Q3 == Question("q3", "Deduction", <<"a", "b">>, 1, <<"because3">>)
Q4 == Question("q4", "Interpretation", <<"a", "b">>, 2, <<>>)
Q5 == Question("q5", "Arguments", <<"a", "b">>, 1, <<"because5">>)
Q6 == Question("q6", "Inference", <<"a", "b", "c">>, 3, <<"because6">>)

\* The sheets the model reads: one question per section; a sheet with two
\* Inference questions and two empty sections; an empty sheet.
SheetFull == <<Q1, Q2, Q3, Q4, Q5>>
SheetSparse == <<Q6, Q3, Q1, Q5>>
SheetEmpty == <<>>
Sheets == {SheetFull, SheetSparse, SheetEmpty}

readQuestions == sheet

-----------------------------------------------------------------------------
(* Inbound text *)

Whitespace == {" "}
Digits == {"0", "1", "2", "3", "4", "5", "6", "7", "8", "9"}

DigitValue(c) ==
    CASE c = "0" -> 0 [] c = "1" -> 1 [] c = "2" -> 2 [] c = "3" -> 3
      [] c = "4" -> 4 [] c = "5" -> 5 [] c = "6" -> 6 [] c = "7" -> 7
      [] c = "8" -> 8 [] c = "9" -> 9

\* The letters of the start vocabulary, lower-cased (the regex's i flag).
ToLower(c) ==
    CASE c = "S" -> "s" [] c = "T" -> "t" [] c = "A" -> "a"
      [] c = "R" -> "r" [] c = "E" -> "e" [] OTHER -> c

LowerCase(str) == [i \in 1..Len(str) |-> ToLower(str[i])]

RECURSIVE TrimStart(_)
TrimStart(str) ==
    IF str # <<>> /\ Head(str) \in Whitespace THEN TrimStart(Tail(str)) ELSE str

RECURSIVE TrimEnd(_)
TrimEnd(str) ==
    IF str # <<>> /\ str[Len(str)] \in Whitespace
    THEN TrimEnd(SubSeq(str, 1, Len(str) - 1))
    ELSE str

\* String.prototype.trim
Trim(str) == TrimEnd(TrimStart(str))

\* /^start|test$/i.test(body): the text begins with "start" or ends with
\* "test", in any letter case.
StartRegex(body) ==
    LET s == LowerCase(body) IN
    \/ Len(s) >= 5 /\ SubSeq(s, 1, 5) = <<"s", "t", "a", "r", "t">>
    \/ Len(s) >= 4 /\ SubSeq(s, Len(s) - 3, Len(s)) = <<"t", "e", "s", "t">>

\* The value of the longest prefix of decimal digits of str.
RECURSIVE DigitPrefix(_, _)
DigitPrefix(str, acc) ==
    IF str # <<>> /\ Head(str) \in Digits
    THEN DigitPrefix(Tail(str), 10 * acc + DigitValue(Head(str)))
    ELSE acc

\* parseInt(body, 10): leading white space is skipped, a sign is read, then
\* the longest prefix of digits; what follows the digits is ignored.  <<>>
\* is NaN (no digit was read), <<n>> the integer n.
ParseInt(body) ==
    LET s == TrimStart(body)
        neg == s # <<>> /\ Head(s) = "-"
        t == IF s # <<>> /\ Head(s) \in {"-", "+"} THEN Tail(s) ELSE s
    IN  IF t = <<>> \/ Head(t) \notin Digits
        THEN <<>>
        ELSE <<(IF neg THEN -1 ELSE 1) * DigitPrefix(t, 0)>>

IsNaN(num) == num = <<>>

\* The request bodies (req.body.Body) the participant sends in the model.
Bodies ==
    { <<"s", "t", "a", "r", "t">>,
      <<"T", "E", "S", "T", " ">>,
      <<"1">>,
      <<"2">>,
      <<"2", "x">>,
      <<"3">>,
      <<"x">> }

-----------------------------------------------------------------------------
(* Session store *)

\* memGet that treats the millisecond of the expiry stamp as expired.
memGetInclusive(store, t) ==
    IF store = <<>>
    THEN [value |-> <<>>, store |-> store]
    ELSE IF store[1].expires # 0 /\ t >= store[1].expires
         THEN [value |-> <<>>, store |-> <<>>]
         ELSE [value |-> <<store[1].value>>, store |-> store]

\* memGet(key) at time t: the value of the entry, and the Map after the read
\* (an entry read past its expiry stamp is deleted).
memGet(store, t) ==
    IF store = <<>>
    THEN [value |-> <<>>, store |-> store]
    ELSE IF store[1].expires # 0 /\ t > store[1].expires
         THEN [value |-> <<>>, store |-> <<>>]
         ELSE [value |-> <<store[1].value>>, store |-> store]

\* memSet(key, val, ttl) at time t: the Map entry it writes.  The entry holds
\* val itself, not a copy.
memSet(val, t, ttl) == <<[value |-> val, expires |-> t + ttl * 1000]>>

\* JSON.stringify of a session and JSON.parse of the text.  A member whose
\* value is undefined is left out of the text and is undefined again after
\* the parse; null, strings, finite numbers and arrays are kept.  The text
\* is a copy: what the handler later does to the session does not reach it.
JsonStringify(val) ==
    [state |-> val.state, sectionIndex |-> val.sectionIndex,
     asked |-> val.asked, answers |-> val.answers, qStart |-> val.qStart,
     currentQ |-> val.currentQ]

JsonParse(raw) ==
    [state |-> raw.state, sectionIndex |-> raw.sectionIndex,
     asked |-> raw.asked, answers |-> raw.answers, qStart |-> raw.qStart,
     currentQ |-> raw.currentQ]

\* redis.get(key) at time t.  A key set with EX ttl is gone once ttl seconds
\* have passed; on the very millisecond of expiry the server may or may not
\* still hold it (atExpiry).
redisGet(key, t, atExpiry) ==
    IF key = <<>> THEN <<>>
    ELSE IF t > key[1].expires \/ (t = key[1].expires /\ atExpiry) THEN <<>>
    ELSE <<key[1].raw>>

\* redis.set with NX in place of EX: a key that exists is left as it is.
redisSetNX(raw, t, ttl) ==
    IF redisKey # <<>> THEN redisKey ELSE <<[raw |-> raw, expires |-> t + ttl * 1000]>>

\* redis.set(key, raw, "EX", ttl) at time t.
redisSet(raw, t, ttl) == <<[raw |-> raw, expires |-> t + ttl * 1000]>>

\* getSession(key): the session it resolves to, <<>> for null.
getSession(t, atExpiry) ==
    IF redis
    THEN LET raw == redisGet(redisKey, t, atExpiry) IN
         IF raw = <<>> THEN <<>> ELSE <<JsonParse(raw[1])>>
    ELSE memGet(memStore, t).value

\* The session the handler starts from when getSession resolves to null.
DefaultSession(t) ==
    [state |-> "IDLE", sectionIndex |-> 0, asked |-> <<>>, answers |-> <<>>,
     qStart |-> t, currentQ |-> UndefinedQ]

-----------------------------------------------------------------------------
(* Question selector *)

\* Uniform draws: Math.random() is k / RandomGrain for some k in 0..RandomGrain-1.
RandomGrain == 3
Randoms == 0..(RandomGrain - 1)

\* pickNextQuestion that forgets the askedIds filter.
pickNextQuestionAnyId(qs, section, askedIds, rnd) ==
    LET InPool(q) == q.section = section
        pool == SelectSeq(qs, InPool)
    IN  IF Len(pool) = 0 THEN NullQ
        ELSE pool[((rnd * Len(pool)) \div RandomGrain) + 1]

\* pickNextQuestion(qs, section, askedIds) with Math.random() = rnd / RandomGrain.
\* NullQ is the null it returns for an empty pool.
pickNextQuestion(qs, section, askedIds, rnd) ==
    LET InPool(q) == q.section = section /\ q.id \notin askedIds
        pool == SelectSeq(qs, InPool)
    IN  IF Len(pool) = 0 THEN NullQ
        ELSE pool[((rnd * Len(pool)) \div RandomGrain) + 1]

-----------------------------------------------------------------------------
(* Scorer: the SCORING block of the handler *)

\* bySection[s] after the loop over session.answers; present is FALSE when
\* the loop never created the entry.
BySection(answers, s) ==
    LET InSection(a) == a.section = s
        Right(a) == a.isCorrect
        Wrong(a) == ~a.isCorrect
        mine == SelectSeq(answers, InSection)
        wrong == SelectSeq(mine, Wrong)
    IN  [present |-> Len(mine) > 0,
         total |-> Len(mine),
         correct |-> Len(SelectSeq(mine, Right)),
         wrongIds |-> [i \in 1..Len(wrong) |-> wrong[i].qid]]

\* The loop "for (const s of SECTIONS)" that adds up totalCorrect and total,
\* from section i on.
RECURSIVE Totals(_, _)
Totals(answers, i) ==
    IF i > Len(SECTIONS) THEN [totalCorrect |-> 0, total |-> 0]
    ELSE LET m == BySection(answers, SECTIONS[i])
             rest == Totals(answers, i + 1)
         IN  IF ~m.present THEN rest
             ELSE [totalCorrect |-> m.correct + rest.totalCorrect,
                   total |-> m.total + rest.total]

\* Math.floor in the place of Math.round.
MathFloor(num, den) == num \div den

\* Math.round(num / den) for num >= 0 and den > 0: halves round up.
MathRound(num, den) == (2 * num + den) \div (2 * den)

\* questions.find((q) => q.id === id): <<>> when there is none.
Find(questions, id) ==
    LET HasId(q) == q.id = id
        found == SelectSeq(questions, HasId)
    IN  IF found = <<>> THEN <<>> ELSE <<found[1]>>

\* HasRationale that takes an empty rationale cell for a rationale.
HasRationaleOrEmpty(qWrong) == qWrong # <<>> /\ qWrong[1].rationale # <<>>

\* qWrong?.rationale is truthy: the question exists and its rationale is a
\* non-empty string.
HasRationale(qWrong) ==
    qWrong # <<>> /\ qWrong[1].rationale # <<>> /\ qWrong[1].rationale # <<"">>

\* The loop that fills rationaleLines, from section i on.
RECURSIVE RationaleLines(_, _, _)
RationaleLines(answers, questions, i) ==
    IF i > Len(SECTIONS) THEN <<>>
    ELSE LET s == SECTIONS[i]
             m == BySection(answers, s)
             rest == RationaleLines(answers, questions, i + 1)
         IN  IF ~m.present \/ Len(m.wrongIds) = 0 THEN rest
             ELSE LET qWrong == Find(questions, m.wrongIds[1]) IN
                  IF HasRationale(qWrong)
                  THEN <<[section |-> s, rationale |-> qWrong[1].rationale[1]]>> \o rest
                  ELSE rest

\* The numbers and lines of the "Test complete!" message.
Score(answers, questions) ==
    LET t == Totals(answers, 1)
        pct == IF t.total # 0 THEN MathRound(100 * t.totalCorrect, t.total) ELSE 0
    IN  [totalCorrect |-> t.totalCorrect, total |-> t.total, pct |-> pct,
         feedback |-> RationaleLines(answers, questions, 1)]

-----------------------------------------------------------------------------
(* The webhook handler.  A context is the handler's progress through one    *)
(* message: its session object, the blocks that ran (steps), the messages   *)
(* sendWA delivered (sent), the rows handed to appendAttempt (attempts),    *)
(* the values given to the setSession calls that resolved (persisted),      *)
(* whether it is still running, has responded 200, or stopped at a call     *)
(* that rejected or threw, and which call that was (failed).                *)

\* The call that rejects while a message is handled: the nth call of that
\* function in the message, if the handler gets to it.
NoFailure == [call |-> "none", nth |-> 0]
Failures ==
    { NoFailure,
      [call |-> "getSession", nth |-> 1],
      [call |-> "readQuestions", nth |-> 1],
      [call |-> "sendWA", nth |-> 1],
      [call |-> "sendWA", nth |-> 2],
      [call |-> "setSession", nth |-> 1] }

Started == [type |-> "started"]
PleaseReply(n) == [type |-> "please_reply", max |-> n]
Complete(score) == [type |-> "complete", score |-> score]
Skipping(section) == [type |-> "skipping", section |-> section]
AskQuestion(section, q) ==
    [type |-> "question", section |-> section, qid |-> q.id, options |-> q.options]

\* await sendWA(from, msg): twilio.messages.create resolves, or rejects and
\* the handler stops there.
sendWA(ctx, msg, fail) ==
    IF fail = [call |-> "sendWA", nth |-> Len(ctx.sent) + 1]
    THEN [ctx EXCEPT !.status = "rejected", !.failed = "sendWA"]
    ELSE [ctx EXCEPT !.sent = Append(@, msg)]

\* await setSession(userId, session): redis.set may reject; memSet cannot.
setSession(ctx, fail) ==
    IF redis /\ fail.call = "setSession"
    THEN [ctx EXCEPT !.status = "rejected", !.failed = "setSession"]
    ELSE [ctx EXCEPT !.persisted = Append(@, ctx.session)]

\* res.sendStatus(200), which every exit of the handler ends with.
sendStatus200(ctx) ==
    IF ctx.status = "running" THEN [ctx EXCEPT !.status = "responded"] ELSE ctx

\* StartTest that answers the start command and returns, as if the handler
\* did not fall through to "Ask next question".
StartTestReturns(ctx, body, fail) ==
    IF ctx.status = "running" /\ ctx.session.state = "IDLE" /\ StartRegex(body)
    THEN LET told == sendWA([ctx EXCEPT !.session.state = "ASKING",
                                        !.session.sectionIndex = 0,
                                        !.session.answers = <<>>,
                                        !.steps = Append(@, "start")],
                            Started, fail)
         IN  IF told.status # "running" THEN told
             ELSE sendStatus200(setSession(told, fail))
    ELSE ctx

\* StartTest that forgets to empty session.answers.
StartTestKeepsAnswers(ctx, body, fail) ==
    IF ctx.status = "running" /\ ctx.session.state = "IDLE" /\ StartRegex(body)
    THEN sendWA([ctx EXCEPT !.session.state = "ASKING",
                            !.session.sectionIndex = 0,
                            !.steps = Append(@, "start")],
                Started, fail)
    ELSE ctx

\* StartTest that takes the start command in any state of the session.
StartTestAnyState(ctx, body, fail) ==
    IF ctx.status = "running" /\ StartRegex(body)
    THEN sendWA([ctx EXCEPT !.session.state = "ASKING",
                            !.session.sectionIndex = 0,
                            !.session.answers = <<>>,
                            !.steps = Append(@, "start")],
                Started, fail)
    ELSE ctx

\* "Start test"
StartTest(ctx, body, fail) ==
    IF ctx.status = "running" /\ ctx.session.state = "IDLE" /\ StartRegex(body)
    THEN sendWA([ctx EXCEPT !.session.state = "ASKING",
                            !.session.sectionIndex = 0,
                            !.session.answers = <<>>,
                            !.steps = Append(@, "start")],
                Started, fail)
    ELSE ctx

\* InvalidAnswer with the upper bound of the range off by one.
InvalidAnswerOffByOne(num, q) == IsNaN(num) \/ num[1] < 1 \/ num[1] > Len(q.options) + 1

\* The validation test of "Record answer", for a q that is not null.
InvalidAnswer(num, q) == IsNaN(num) \/ num[1] < 1 \/ num[1] > Len(q.options)

\* The outcomes of the spreadsheet append that appendAttempt awaits: the row
\* is written, the call rejects, or it never settles.
Outcomes == {"written", "rejects", "pending"}

\* appendAttempt called with await and without the catch.
appendAttemptAwaited(ctx, a, outcome) ==
    IF outcome = "written"
    THEN [ctx EXCEPT !.attempts = Append(@, [row |-> a, outcome |-> outcome])]
    ELSE [ctx EXCEPT !.attempts = Append(@, [row |-> a, outcome |-> outcome]),
                     !.status = IF outcome = "rejects" THEN "rejected" ELSE "pending",
                     !.failed = "appendAttempt"]

\* appendAttempt(a).catch(() => {}): the handler does not wait for the
\* promise and a rejection ends in the empty catch.
appendAttempt(ctx, a, outcome) ==
    [ctx EXCEPT !.attempts = Append(@, [row |-> a, outcome |-> outcome])]

\* "Record answer"
RecordAnswer(ctx, body, fail, t, outcome) ==
    IF ctx.status = "running" /\ ctx.session.state = "WAITING_ANSWER"
    THEN LET num == ParseInt(body)
             q == ctx.session.currentQ
         IN  IF Falsy(q)
             THEN \* the message text reads q.options of a null q: TypeError
                  [ctx EXCEPT !.status = "rejected", !.failed = "TypeError",
                              !.steps = Append(@, "invalid")]
             ELSE IF InvalidAnswer(num, q)
             THEN sendStatus200(
                      sendWA([ctx EXCEPT !.steps = Append(@, "invalid")],
                             PleaseReply(Len(q.options)), fail))
             ELSE LET latency == t - ctx.session.qStart
                      isCorrect == num[1] = q.correct
                      answer == [qid |-> q.id, section |-> q.section,
                                 selected |-> num[1], correct |-> q.correct,
                                 isCorrect |-> isCorrect, latency |-> latency]
                      attempt == [qid |-> q.id, section |-> q.section,
                                  selected |-> num[1], correct |-> q.correct,
                                  is_correct |-> isCorrect, latency_ms |-> latency]
                      pushed == [ctx EXCEPT !.session.answers = Append(@, answer),
                                            !.steps = Append(@, "record")]
                      logged == appendAttempt(pushed, attempt, outcome)
                  IN  IF logged.status # "running" THEN logged
                      ELSE [logged EXCEPT !.session.state = "ASKING",
                                          !.session.currentQ = NullQ]
    ELSE ctx

\* "Ask next question", the branch sectionIndex >= SECTIONS.length
Scoring(ctx, questions, fail) ==
    LET told == sendWA([ctx EXCEPT !.steps = Append(@, "score")],
                       Complete(Score(ctx.session.answers, questions)), fail)
    IN  IF told.status # "running" THEN told
        ELSE sendStatus200(setSession([told EXCEPT !.session.state = "IDLE"], fail))

\* SECTIONS[i], for the 0-based index i: undefined past the end of the array.
SectionAt(i) == IF i + 1 \in DOMAIN SECTIONS THEN SECTIONS[i + 1] ELSE "undefined"

\* MarkAsked that leaves sectionIndex for the answer to advance.
MarkAskedLate(session, q, t) ==
    [session EXCEPT !.currentQ = q, !.qStart = t, !.state = "WAITING_ANSWER"]

\* What the handler does to the session once the question is sent.
MarkAsked(session, q, t) ==
    [session EXCEPT !.currentQ = q, !.qStart = t,
                    !.state = "WAITING_ANSWER", !.sectionIndex = @ + 1]

\* Dispatch that goes on to the next section in the same message when the
\* section has no question.
RECURSIVE DispatchAutoAdvance(_, _, _, _, _)
DispatchAutoAdvance(ctx, questions, rnd, fail, t) ==
    LET section == SectionAt(ctx.session.sectionIndex)
        InSection(a) == a.section = section
        mine == SelectSeq(ctx.session.answers, InSection)
        askedIds == {mine[i].qid : i \in 1..Len(mine)}
        q == pickNextQuestion(questions, section, askedIds, rnd)
    IN  IF Falsy(q)
        THEN LET saved == setSession([ctx EXCEPT !.session.sectionIndex = @ + 1,
                                                 !.steps = Append(@, "skip")], fail)
                 told == sendWA(saved, Skipping(section), fail)
             IN  IF saved.status # "running" THEN saved
                 ELSE IF told.status # "running"
                         \/ told.session.sectionIndex >= Len(SECTIONS)
                      THEN sendStatus200(told)
                      ELSE DispatchAutoAdvance(told, questions, rnd, fail, t)
        ELSE LET asked == sendWA([ctx EXCEPT !.steps = Append(@, "ask")],
                                 AskQuestion(section, q), fail)
             IN  IF asked.status # "running" THEN asked
                 ELSE [asked EXCEPT !.session = MarkAsked(@, q, t)]

\* Dispatch whose skip path announces the skip and leaves sectionIndex as it
\* was.
DispatchSkipStays(ctx, questions, rnd, fail, t) ==
    LET section == SectionAt(ctx.session.sectionIndex)
        InSection(a) == a.section = section
        mine == SelectSeq(ctx.session.answers, InSection)
        askedIds == {mine[i].qid : i \in 1..Len(mine)}
        q == pickNextQuestion(questions, section, askedIds, rnd)
    IN  IF Falsy(q)
        THEN LET saved == setSession([ctx EXCEPT !.steps = Append(@, "skip")], fail)
             IN  IF saved.status # "running" THEN saved
                 ELSE sendStatus200(sendWA(saved, Skipping(section), fail))
        ELSE LET asked == sendWA([ctx EXCEPT !.steps = Append(@, "ask")],
                                 AskQuestion(section, q), fail)
             IN  IF asked.status # "running" THEN asked
                 ELSE [asked EXCEPT !.session = MarkAsked(@, q, t)]

\* Dispatch whose skip path lacks the return and runs on to the last two
\* lines of the handler.
DispatchSkipNoReturn(ctx, questions, rnd, fail, t) ==
    LET section == SectionAt(ctx.session.sectionIndex)
        InSection(a) == a.section = section
        mine == SelectSeq(ctx.session.answers, InSection)
        askedIds == {mine[i].qid : i \in 1..Len(mine)}
        q == pickNextQuestion(questions, section, askedIds, rnd)
    IN  IF Falsy(q)
        THEN LET saved == setSession([ctx EXCEPT !.session.sectionIndex = @ + 1,
                                                 !.steps = Append(@, "skip")], fail)
             IN  IF saved.status # "running" THEN saved
                 ELSE sendWA(saved, Skipping(section), fail)
        ELSE LET asked == sendWA([ctx EXCEPT !.steps = Append(@, "ask")],
                                 AskQuestion(section, q), fail)
             IN  IF asked.status # "running" THEN asked
                 ELSE [asked EXCEPT !.session = MarkAsked(@, q, t)]

\* "Ask next question", the branch that picks a question of the section
Dispatch(ctx, questions, rnd, fail, t) ==
    LET section == SectionAt(ctx.session.sectionIndex)
        InSection(a) == a.section = section
        mine == SelectSeq(ctx.session.answers, InSection)
        askedIds == {mine[i].qid : i \in 1..Len(mine)}
        q == pickNextQuestion(questions, section, askedIds, rnd)
    IN  IF Falsy(q)
        THEN LET saved == setSession([ctx EXCEPT !.session.sectionIndex = @ + 1,
                                                 !.steps = Append(@, "skip")], fail)
             IN  IF saved.status # "running" THEN saved
                 ELSE sendStatus200(sendWA(saved, Skipping(section), fail))
        ELSE LET asked == sendWA([ctx EXCEPT !.steps = Append(@, "ask")],
                                 AskQuestion(section, q), fail)
             IN  IF asked.status # "running" THEN asked
                 ELSE [asked EXCEPT !.session = MarkAsked(@, q, t)]

\* AskNext that scores only once sectionIndex is past SECTIONS.length.
AskNextOffByOne(ctx, questions, rnd, fail, t) ==
    IF ctx.status = "running" /\ ctx.session.state = "ASKING"
    THEN IF ctx.session.sectionIndex > Len(SECTIONS)
         THEN Scoring(ctx, questions, fail)
         ELSE Dispatch(ctx, questions, rnd, fail, t)
    ELSE ctx

\* "Ask next question"
AskNext(ctx, questions, rnd, fail, t) ==
    IF ctx.status = "running" /\ ctx.session.state = "ASKING"
    THEN IF ctx.session.sectionIndex >= Len(SECTIONS)
         THEN Scoring(ctx, questions, fail)
         ELSE Dispatch(ctx, questions, rnd, fail, t)
    ELSE ctx

\* The last two lines of the handler
Persist(ctx, fail) ==
    IF ctx.status = "running" THEN sendStatus200(setSession(ctx, fail)) ELSE ctx

\* The handler from "Start test" on, for the session getSession resolved to
\* (or the default session) and the questions readQuestions resolved to.
Webhook(session, body, questions, rnd, fail, t, outcome) ==
    LET c0 == [session |-> session, status |-> "running", failed |-> "none",
               steps |-> <<>>, sent |-> <<>>, attempts |-> <<>>, persisted |-> <<>>]
        c1 == StartTest(c0, body, fail)
        c2 == RecordAnswer(c1, body, fail, t, outcome)
        c3 == AskNext(c2, questions, rnd, fail, t)
    IN  Persist(c3, fail)

-----------------------------------------------------------------------------
(* State machine *)

NoMessage ==
    [text |-> <<>>, got |-> FALSE, loaded |-> <<>>, at |-> 0, steps |-> <<>>, sent |-> <<>>,
     attempts |-> <<>>, persisted |-> <<>>, status |-> "none", failed |-> "none",
     exited |-> FALSE]

\* No delivery overlaps another: no handler in flight, no object held.
NoProc == <<>>
NoHeap == <<>>

NoPick == [qs |-> <<>>, section |-> "", askedIds |-> {}, called |-> FALSE, result |-> NullQ]

Init ==
    /\ redis \in BOOLEAN
    /\ memStore = <<>>
    /\ redisKey = <<>>
    /\ sheet \in Sheets
    /\ now = 0
    /\ last = NoMessage
    /\ written = <<>>
    /\ pick = NoPick
    /\ run = 0
    /\ proc = NoProc
    /\ heap = NoHeap

\* The draws of Math.random that can tell two runs of the handler apart: the
\* index pickNextQuestion computes is 0 whatever the draw when no section of
\* the sheet has two questions.
Draws ==
    IF \E i, j \in 1..Len(sheet) : i # j /\ sheet[i].section = sheet[j].section
    THEN Randoms ELSE {0}

\* One POST /whatsapp/webhook, from the request to the response or to the
\* call that rejects.  text is req.body.Body; rnd the draw of Math.random;
\* fail the call that rejects; atExpiry what Redis answers on the millisecond
\* of expiry; exits whether the rejected handler promise ends the process
\* (an unhandled rejection ends it or not, by the Node version and flags).
Handle(text, rnd, fail, atExpiry, exits, outcome) ==
    LET body == Trim(text)
        getFails == redis /\ fail.call = "getSession"
        readFails == ~getFails /\ fail.call = "readQuestions"
        loaded == IF getFails THEN <<>> ELSE getSession(now, atExpiry)
        read == IF redis THEN memStore ELSE memGet(memStore, now).store
        session == IF loaded = <<>> THEN DefaultSession(now) ELSE loaded[1]
    IN  \E ctx \in { IF getFails \/ readFails
                     THEN [session |-> session, status |-> "rejected",
                           failed |-> IF getFails THEN "getSession" ELSE "readQuestions",
                           steps |-> <<>>, sent |-> <<>>, attempts |-> <<>>,
                           persisted |-> <<>>]
                     ELSE Webhook(session, body, readQuestions, rnd, fail, now, outcome) } :
        LET died == ctx.status = "rejected" /\ exits
            saved == ctx.persisted # <<>>
        IN  /\ memStore' =
                  IF redis THEN memStore
                  ELSE IF died THEN <<>>
                  ELSE IF loaded # <<>>
                       \* the handler's session is the object the Map holds
                       THEN <<[value |-> ctx.session,
                               expires |-> IF saved
                                           THEN memSet(ctx.session, now, DefaultTTL)[1].expires
                                           ELSE read[1].expires]>>
                       ELSE IF saved THEN memSet(ctx.session, now, DefaultTTL)
                            ELSE read
            /\ redisKey' =
                  IF ~redis THEN redisKey
                  ELSE IF saved
                       THEN redisSet(JsonStringify(ctx.persisted[Len(ctx.persisted)]),
                                     now, DefaultTTL)
                       ELSE IF ~getFails /\ loaded = <<>> THEN <<>> ELSE redisKey
            /\ last' = [text |-> text, got |-> ~getFails, loaded |-> loaded, at |-> now,
                        steps |-> ctx.steps, sent |-> ctx.sent,
                        attempts |-> ctx.attempts, persisted |-> ctx.persisted,
                        status |-> ctx.status, failed |-> ctx.failed, exited |-> died]
            /\ written' = IF died /\ ~redis THEN <<>>
                          ELSE IF saved
                               THEN <<[value |-> ctx.persisted[Len(ctx.persisted)],
                                       at |-> now]>>
                          ELSE written
            /\ UNCHANGED <<redis, sheet, now, pick, proc, heap>>

\* The session the store holds for the participant, <<>> when it holds none.
Stored ==
    IF redis
    THEN IF redisKey = <<>> THEN <<>> ELSE <<JsonParse(redisKey[1].raw)>>
    ELSE IF memStore = <<>> THEN <<>> ELSE <<memStore[1].value>>

\* The store holds a session that waits for an answer: the one case in
\* which a message can reach the appendAttempt call.
Awaited == Stored # <<>> /\ Stored[1].state = "WAITING_ANSWER"

\* A message arrives; the calls in fails are the ones that can reject.
Message(fails) ==
    \E text \in Bodies, rnd \in Draws, fail \in fails :
    \E atExpiry \in (IF redis /\ redisKey # <<>> /\ now = redisKey[1].expires
                     THEN BOOLEAN ELSE {FALSE}),
       exits \in (IF ~redis /\ fail # NoFailure THEN BOOLEAN ELSE {FALSE}),
       outcome \in (IF Awaited THEN Outcomes ELSE {"written"}) :
        /\ Handle(text, rnd, fail, atExpiry, exits, outcome)
        /\ UNCHANGED run

\* Time passes between two messages.
Tick ==
    /\ now < MaxTicks * TickMs
    /\ now' = now + TickMs
    /\ UNCHANGED <<redis, memStore, redisKey, sheet, last, written, pick, run, proc, heap>>

\* Conversations of one participant, one message at a time, within one TTL
\* window, with every call that can reject.
Next == Message(Failures)

Spec == Init /\ [][Next]_vars

\* The message is handled to the end and reports a score.
Completed(m) ==
    /\ m.status = "responded"
    /\ m.sent # <<>>
    /\ m.sent[Len(m.sent)].type = "complete"
    /\ m.persisted # <<>>

\* A message of a participant who answers every open question with one of
\* its option numbers, while no call fails and no session expires.  run
\* counts the messages of the run in progress, the start message included,
\* and is 0 when no run is in progress.
RunMessage ==
    \E text \in Bodies, rnd \in Draws :
    \E outcome \in (IF Awaited THEN Outcomes ELSE {"written"}) :
        /\ Awaited => ~InvalidAnswer(ParseInt(Trim(text)), Stored[1].currentQ)
        /\ Handle(text, rnd, NoFailure, FALSE, FALSE, outcome)
        /\ run' = IF Completed(last') THEN 0
                  ELSE IF "start" \in {last'.steps[i] : i \in 1..Len(last'.steps)} THEN 1
                  ELSE IF run > 0 THEN run + 1
                  ELSE 0

NextRun == RunMessage

\* Conversations of a participant who answers validly, call after call
\* succeeding.
SpecRun == Init /\ [][NextRun]_vars

\* Conversations over a sheet with a single question while time passes and
\* sessions expire, with every call that can reject.
SheetOne == <<Q1>>

InitTTL ==
    /\ redis \in BOOLEAN
    /\ memStore = <<>>
    /\ redisKey = <<>>
    /\ sheet = SheetOne
    /\ now = 0
    /\ last = NoMessage
    /\ written = <<>>
    /\ pick = NoPick
    /\ run = 0
    /\ proc = NoProc
    /\ heap = NoHeap

NextTTL == Message(Failures) \/ Tick

SpecTTL == InitTTL /\ [][NextTTL]_vars

\* Calls of pickNextQuestion on question sets of at most MaxQuestions rows.
MaxQuestions == 3
PickRows == {Q1, Q6, Q3}
PickSets == UNION {[1..n -> PickRows] : n \in 0..MaxQuestions}

InitPick ==
    /\ redis = FALSE
    /\ memStore = <<>>
    /\ redisKey = <<>>
    /\ sheet = SheetEmpty
    /\ now = 0
    /\ last = NoMessage
    /\ run = 0
    /\ proc = NoProc
    /\ heap = NoHeap
    /\ written = <<>>
    /\ pick \in [qs : PickSets, section : {"Inference", "Deduction", "Arguments"},
                  askedIds : SUBSET {"q1", "q6", "q3"}, called : {FALSE},
                  result : {NullQ}]

PickQuestion ==
    /\ ~pick.called
    /\ \E rnd \in Randoms :
          pick' = [pick EXCEPT !.called = TRUE,
                               !.result = pickNextQuestion(pick.qs, pick.section,
                                                           pick.askedIds, rnd)]
    /\ UNCHANGED <<redis, memStore, redisKey, sheet, now, last, written, run, proc, heap>>

NextPick == PickQuestion

SpecPick == InitPick /\ [][NextPick]_vars

-----------------------------------------------------------------------------
(* Overlapping deliveries.  Two requests of one participant are in flight   *)
(* at once and their handlers interleave at the awaits: each step below is  *)
(* the resolution of the awaited call and the synchronous code that follows *)
(* it, up to the next await or the response.  A handler holds its session   *)
(* by reference (proc[h].ref); heap maps references to objects.  With Redis *)
(* every getSession parses a fresh object; the in-memory Map hands out the  *)
(* object it holds, and memStore[1].value is then that object's reference.  *)
(* memGet and memSet run synchronously inside getSession and setSession, so *)
(* the in-memory store is read and written within the step that calls      *)
(* them; redis.get and redis.set take effect when they resolve.  No call    *)
(* fails and no session expires here.                                       *)

Requests == {1, 2}

\* Deliveries followed while requests overlap.
MaxDeliveries == 6

\* The sheet read while deliveries overlap: no question for Assumptions.
SheetGap == <<Q1, Q3, Q4, Q5>>

\* The texts sent while deliveries overlap.
ConcBodies == { <<"s", "t", "a", "r", "t">>, <<"1">>, <<"2">> }

IdleProc(h) ==
    [pc |-> "idle", n |-> 0, status |-> "none", text |-> <<>>, ref |-> h, loaded |-> <<>>,
     q |-> NullQ, section |-> "", msg |-> <<>>, steps |-> <<>>, sent |-> <<>>,
     attempts |-> <<>>, persisted |-> <<>>]

\* A session object, with the history of the sections announced (asked or
\* skipped) to the participant since the start block last ran on it.
Object(session) == [session |-> session, told |-> {}]

\* What a step works on: the handler's locals, the object it holds and the
\* Map entry.
Frame(h) == [p |-> proc[h], o |-> heap[proc[h].ref], map |-> memStore]

\* res.sendStatus(200) and the end of the handler.
Done(f) ==
    [f EXCEPT !.p.pc = "idle", !.p.status = "responded", !.p.q = NullQ,
              !.p.section = "", !.p.msg = <<>>]

\* memSet as setSession runs it: the Map holds the handler's object.
ConcMemSet(f) ==
    [f EXCEPT !.map = memSet(f.p.ref, now, DefaultTTL),
              !.p.persisted = Append(@, f.o.session)]

\* The last two lines of the handler, up to the await of redis.set.
ConcPersist(f) ==
    IF redis THEN [f EXCEPT !.p.pc = "setFinal"] ELSE Done(ConcMemSet(f))

\* "Ask next question", up to its await.
ConcAskNext(f, rnd) ==
    LET s == f.o.session
        section == SectionAt(s.sectionIndex)
        InSection(a) == a.section = section
        mine == SelectSeq(s.answers, InSection)
        askedIds == {mine[i].qid : i \in 1..Len(mine)}
        q == pickNextQuestion(sheet, section, askedIds, rnd)
    IN  IF s.state # "ASKING" THEN ConcPersist(f)
        ELSE IF s.sectionIndex >= Len(SECTIONS)
        THEN [f EXCEPT !.p.steps = Append(@, "score"),
                       !.p.msg = <<Complete(Score(s.answers, sheet))>>,
                       !.p.pc = "sendComplete"]
        ELSE IF Falsy(q)
        THEN LET g == [f EXCEPT !.o.session.sectionIndex = @ + 1,
                                !.p.steps = Append(@, "skip"),
                                !.p.section = section]
             IN  IF redis THEN [g EXCEPT !.p.pc = "setSkip"]
                 ELSE [ConcMemSet(g) EXCEPT !.p.pc = "sendSkip"]
        ELSE [f EXCEPT !.p.steps = Append(@, "ask"), !.p.q = q,
                       !.p.section = section, !.p.pc = "sendQuestion"]

\* "Record answer", up to its await or on into "Ask next question".
ConcRecordAnswer(f, rnd) ==
    LET s == f.o.session
        num == ParseInt(f.p.text)
        q == s.currentQ
    IN  IF s.state # "WAITING_ANSWER" THEN ConcAskNext(f, rnd)
        ELSE IF Falsy(q)
        THEN [f EXCEPT !.p.pc = "idle", !.p.status = "rejected",
                       !.p.steps = Append(@, "invalid")]
        ELSE IF InvalidAnswer(num, q)
        THEN [f EXCEPT !.p.steps = Append(@, "invalid"),
                       !.p.msg = <<PleaseReply(Len(q.options))>>,
                       !.p.pc = "sendInvalid"]
        ELSE LET latency == now - s.qStart
                 isCorrect == num[1] = q.correct
                 answer == [qid |-> q.id, section |-> q.section,
                            selected |-> num[1], correct |-> q.correct,
                            isCorrect |-> isCorrect, latency |-> latency]
                 attempt == [qid |-> q.id, section |-> q.section,
                             selected |-> num[1], correct |-> q.correct,
                             is_correct |-> isCorrect, latency_ms |-> latency]
             IN  ConcAskNext([f EXCEPT !.o.session.answers = Append(@, answer),
                                       !.o.session.state = "ASKING",
                                       !.o.session.currentQ = NullQ,
                                       !.p.attempts = Append(@, attempt),
                                       !.p.steps = Append(@, "record")], rnd)

\* "Start test", up to its await or on into "Record answer".
ConcStartTest(f, rnd) ==
    IF f.o.session.state = "IDLE" /\ StartRegex(f.p.text)
    THEN [f EXCEPT !.o.session.state = "ASKING",
                   !.o.session.sectionIndex = 0,
                   !.o.session.answers = <<>>,
                   !.o.told = {},
                   !.p.steps = Append(@, "start"),
                   !.p.pc = "sendStarted"]
    ELSE ConcRecordAnswer(f, rnd)

\* The step leaves the handler, its object and the Map entry as in f.
Commit(h, f) ==
    /\ proc' = [proc EXCEPT ![h] = f.p]
    /\ heap' = [heap EXCEPT ![f.p.ref] = f.o]
    /\ memStore' = f.map

\* A request arrives: the handler trims the body and calls getSession.
ReceiveWebhook(h) ==
    /\ proc[h].pc = "idle"
    /\ proc[1].n + proc[2].n < MaxDeliveries
    /\ \E text \in ConcBodies :
          proc' = [proc EXCEPT ![h] = [IdleProc(h) EXCEPT !.pc = "getSession",
                                                          !.n = proc[h].n + 1,
                                                          !.status = "running",
                                                          !.text = Trim(text)]]
    /\ UNCHANGED <<redis, memStore, redisKey, sheet, now, last, written, pick, run, heap>>

\* getSession resolves; the handler takes the session or the default
\* session and calls readQuestions.
GetSessionResolves(h) ==
    /\ proc[h].pc = "getSession"
    /\ IF redis
       THEN LET raw == redisGet(redisKey, now, FALSE)
                session == IF raw = <<>> THEN DefaultSession(now) ELSE JsonParse(raw[1])
            IN  /\ heap' = [heap EXCEPT ![h] = Object(session)]
                /\ proc' = [proc EXCEPT ![h].ref = h,
                                        ![h].loaded = IF raw = <<>> THEN <<>> ELSE <<session>>,
                                        ![h].pc = "readQuestions"]
                /\ UNCHANGED memStore
       ELSE LET got == memGet(memStore, now) IN
            /\ memStore' = got.store
            /\ IF got.value = <<>>
               THEN /\ heap' = [heap EXCEPT ![h] = Object(DefaultSession(now))]
                    /\ proc' = [proc EXCEPT ![h].ref = h, ![h].pc = "readQuestions"]
               ELSE /\ heap' = heap
                    /\ proc' = [proc EXCEPT ![h].ref = got.value[1],
                                            ![h].loaded = <<heap[got.value[1]].session>>,
                                            ![h].pc = "readQuestions"]
    /\ UNCHANGED <<redis, redisKey, sheet, now, last, written, pick, run>>

\* readQuestions resolves; the handler runs on to its next await.
ReadQuestionsResolves(h) ==
    /\ proc[h].pc = "readQuestions"
    /\ \E rnd \in Draws : \E f \in {ConcStartTest(Frame(h), rnd)} : Commit(h, f)
    /\ UNCHANGED <<redis, redisKey, sheet, now, last, written, pick, run>>

\* The sendWA of the start acknowledgment resolves.
SendStartedResolves(h) ==
    /\ proc[h].pc = "sendStarted"
    /\ \E rnd \in Draws :
       \E f \in {ConcRecordAnswer([Frame(h) EXCEPT !.p.sent = Append(@, Started)], rnd)} :
          Commit(h, f)
    /\ UNCHANGED <<redis, redisKey, sheet, now, last, written, pick, run>>

\* The sendWA of the validation prompt resolves; the handler returns.
SendInvalidResolves(h) ==
    /\ proc[h].pc = "sendInvalid"
    /\ \E f \in {Done([Frame(h) EXCEPT !.p.sent = Append(@, proc[h].msg[1])])} :
          Commit(h, f)
    /\ UNCHANGED <<redis, redisKey, sheet, now, last, written, pick, run>>

\* The sendWA of the score resolves; the handler sets IDLE and persists.
SendCompleteResolves(h) ==
    /\ proc[h].pc = "sendComplete"
    /\ LET told == [Frame(h) EXCEPT !.p.sent = Append(@, proc[h].msg[1]),
                                    !.o.session.state = "IDLE"]
       IN  \E f \in {IF redis THEN [told EXCEPT !.p.pc = "setComplete"]
                     ELSE Done(ConcMemSet(told))} :
              Commit(h, f)
    /\ UNCHANGED <<redis, redisKey, sheet, now, last, written, pick, run>>

\* The sendWA of the skip notice resolves; the handler returns.
SendSkipResolves(h) ==
    /\ proc[h].pc = "sendSkip"
    /\ \E f \in {Done([Frame(h) EXCEPT
                          !.p.sent = Append(@, Skipping(proc[h].section)),
                          !.o.told = IF redis THEN @ ELSE @ \cup {proc[h].section}])} :
          Commit(h, f)
    /\ UNCHANGED <<redis, redisKey, sheet, now, last, written, pick, run>>

\* The sendWA of the question resolves; the handler makes it the current
\* question, consumes the section and goes on to the last two lines.
SendQuestionResolves(h) ==
    /\ proc[h].pc = "sendQuestion"
    /\ LET p == proc[h]
           asked == [Frame(h) EXCEPT
                        !.p.sent = Append(@, AskQuestion(p.section, p.q)),
                        !.o.told = IF redis THEN @ ELSE @ \cup {p.section},
                        !.o.session = MarkAsked(@, p.q, now)]
       IN  \E f \in {ConcPersist(asked)} : Commit(h, f)
    /\ UNCHANGED <<redis, redisKey, sheet, now, last, written, pick, run>>

\* redis.set resolves: the key holds the text of the handler's session.
SetSessionResolves(h) ==
    /\ redis
    /\ proc[h].pc \in {"setComplete", "setSkip", "setFinal"}
    /\ redisKey' = redisSet(JsonStringify(heap[proc[h].ref].session), now, DefaultTTL)
    /\ LET saved == [Frame(h) EXCEPT !.p.persisted = Append(@, heap[proc[h].ref].session)]
       IN  proc' = [proc EXCEPT ![h] = IF proc[h].pc = "setSkip"
                                       THEN [saved.p EXCEPT !.pc = "sendSkip"]
                                       ELSE Done(saved).p]
    /\ UNCHANGED <<redis, memStore, sheet, now, last, written, pick, run, heap>>

\* The session the store holds while deliveries overlap: the text under the
\* Redis key parsed, or the object the Map entry refers to.
ConcStored ==
    IF redis
    THEN IF redisKey = <<>> THEN <<>> ELSE <<JsonParse(redisKey[1].raw)>>
    ELSE IF memStore = <<>> THEN <<>> ELSE <<heap[memStore[1].value].session>>

\* No request is in flight.
Quiescent == \A h \in Requests : proc[h].pc = "idle"

InitConc ==
    /\ redis \in BOOLEAN
    /\ memStore = <<>>
    /\ redisKey = <<>>
    /\ sheet = SheetGap
    /\ now = 0
    /\ last = NoMessage
    /\ written = <<>>
    /\ pick = NoPick
    /\ run = 0
    /\ proc = [h \in Requests |-> IdleProc(h)]
    /\ heap = [h \in Requests |-> Object(DefaultSession(0))]

NextConc ==
    \E h \in Requests :
        \/ ReceiveWebhook(h)
        \/ GetSessionResolves(h)
        \/ ReadQuestionsResolves(h)
        \/ SendStartedResolves(h)
        \/ SendInvalidResolves(h)
        \/ SendCompleteResolves(h)
        \/ SendSkipResolves(h)
        \/ SendQuestionResolves(h)
        \/ SetSessionResolves(h)

SpecConc == InitConc /\ [][NextConc]_vars

-----------------------------------------------------------------------------
(* Properties *)

\* The blocks of the handler that ran for a message.
Steps(m) == {m.steps[i] : i \in 1..Len(m.steps)}

\* The step handles a message (the clock stands still while it does).
MessageStep == now' = now

SectionNames == {SECTIONS[i] : i \in 1..Len(SECTIONS)}
SectionNumber(s) == CHOOSE i \in 1..Len(SECTIONS) : SECTIONS[i] = s

\* C1: a message to a session in WAITING_ANSWER whose text parses to NaN or
\* to an integer outside 1..options.length runs the validation branch only:
\* no Answer, no attempt, no dispatch or scoring, no setSession, the stored
\* session is what it was, and the one reply is the validation prompt (no
\* reply at all when a call rejects).
C1_InvalidAnswerLeavesSession ==
    [][ LET m == last'
            s == m.loaded[1]
            num == ParseInt(Trim(m.text))
        IN  ( /\ MessageStep
              /\ m.loaded # <<>>
              /\ s.state = "WAITING_ANSWER"
              /\ ~Falsy(s.currentQ)
              /\ (IsNaN(num) \/ num[1] < 1 \/ num[1] > Len(s.currentQ.options)) )
            => /\ Steps(m) \subseteq {"invalid"}
               /\ m.attempts = <<>>
               /\ m.persisted = <<>>
               /\ m.status = "responded" =>
                     m.steps = <<"invalid">>
                     /\ m.sent = <<PleaseReply(Len(s.currentQ.options))>>
               /\ m.status = "rejected" => m.sent = <<>>
               /\ ~m.exited => Stored' = Stored /\ Stored' = m.loaded
      ]_vars

\* C1 witness: "3" sent to a question with two options got the prompt.
C1_Witness ==
    /\ last.text = <<"3">>
    /\ last.steps = <<"invalid">>
    /\ last.status = "responded"
    /\ last.sent = <<PleaseReply(2)>>
    /\ Stored # <<>> /\ Stored[1].state = "WAITING_ANSWER"

\* C2 as claimed: a start command is answered by the acknowledgment alone
\* and leaves the session ASKING at sectionIndex 0; no message runs both the
\* start block and the dispatch block.
C2_StartOnlyAcknowledges ==
    "start" \in Steps(last) /\ last.status = "responded" =>
        /\ last.steps = <<"start">>
        /\ last.sent = <<Started>>
        /\ last.persisted # <<>>
        /\ last.persisted[1].state = "ASKING"
        /\ last.persisted[1].sectionIndex = 0

\* C2 amended: the start block falls through to the dispatch block.  A
\* message that starts a run and is handled to the end sends the
\* acknowledgment and then the first section's question (session
\* WAITING_ANSWER) or its skip notice (session ASKING), at sectionIndex 1.
\* Start and record never share a message; a message runs at most two
\* blocks, and then the second is a dispatch after a start or a record.
C2_StartFallsThroughToDispatch ==
    /\ "start" \in Steps(last) =>
          /\ last.steps[1] = "start"
          /\ last.loaded = <<>> \/ last.loaded[1].state = "IDLE"
          /\ Steps(last) \cap {"record", "invalid", "score"} = {}
    /\ "start" \in Steps(last) /\ last.status = "responded" =>
          /\ last.steps \in {<<"start", "ask">>, <<"start", "skip">>}
          /\ Len(last.sent) = 2
          /\ last.sent[1] = Started
          /\ last.sent[2].type \in {"question", "skipping"}
          /\ last.sent[2].section = SECTIONS[1]
          /\ last.persisted # <<>>
          /\ last.persisted[1].sectionIndex = 1
          /\ last.persisted[1].state =
                IF last.steps[2] = "ask" THEN "WAITING_ANSWER" ELSE "ASKING"
    /\ Len(last.steps) <= 2
    /\ Len(last.steps) = 2 =>
          /\ last.steps[1] \in {"start", "record"}
          /\ last.steps[2] \in {"ask", "skip", "score"}

\* C2 witness: one message started the run and dispatched the first question.
C2_Witness ==
    /\ last.steps = <<"start", "ask">>
    /\ last.status = "responded"
    /\ last.sent[2].type = "question"

\* At most one Answer per section, every section one of SECTIONS.
OnePerSection(answers) ==
    /\ \A i \in 1..Len(answers) : answers[i].section \in SectionNames
    /\ \A i, j \in 1..Len(answers) : i # j => answers[i].section # answers[j].section
    /\ Len(answers) <= Len(SECTIONS)

\* C3: the answers of every session the store holds, and of every session a
\* message loaded or persisted, hold at most one entry per section, so never
\* more than SECTIONS.length entries.
C3_OneAnswerPerSection ==
    \A s \in {Stored, last.loaded, last.persisted} :
        s # <<>> => OnePerSection(s[1].answers)

\* C3 witness: a stored session with an Answer for each of the sections.
C3_Witness == Stored # <<>> /\ Len(Stored[1].answers) = Len(SECTIONS)

\* C4: every stored session has 0 <= sectionIndex <= SECTIONS.length and one
\* of the three states; a message raises the stored sectionIndex by one at
\* most, only from below SECTIONS.length, and only by asking or skipping.
C4_SectionIndexInRange ==
    [][ /\ Stored' # <<>> =>
              /\ Stored'[1].sectionIndex \in 0..Len(SECTIONS)
              /\ Stored'[1].state \in {"IDLE", "ASKING", "WAITING_ANSWER"}
        /\ LET before == IF Stored = <<>> THEN 0 ELSE Stored[1].sectionIndex
               after == Stored'[1].sectionIndex
           IN  (MessageStep /\ Stored' # <<>> /\ after > before) =>
                   /\ after = before + 1
                   /\ before < Len(SECTIONS)
                   /\ Steps(last') \cap {"ask", "skip"} # {}
      ]_vars

\* C4 witness: a stored session whose sectionIndex is SECTIONS.length.
C4_Witness == Stored # <<>> /\ Stored[1].sectionIndex = Len(SECTIONS)

\* The Answers of a session belong to sections the run has consumed, in
\* section order.
AnswersOfThisRun(s) ==
    /\ OnePerSection(s.answers)
    /\ \A i \in 1..Len(s.answers) : SectionNumber(s.answers[i].section) <= s.sectionIndex
    /\ \A i, j \in 1..Len(s.answers) :
          i < j => SectionNumber(s.answers[i].section) < SectionNumber(s.answers[j].section)

\* C5: a message that runs the start block found the session IDLE, and the
\* session it persists has no Answer and has consumed only the first
\* section (sectionIndex was reset to 0 before the dispatch of the same
\* message); a stored session leaves IDLE only by the start block and then
\* holds no Answer.  So the Answers of a stored session are those of its
\* own run, although completion keeps answers and sectionIndex in the IDLE
\* session it stores.
C5_NewRunStartsEmpty ==
    [][ LET m == last' IN
        /\ (MessageStep /\ "start" \in Steps(m)) =>
              /\ m.loaded = <<>> \/ m.loaded[1].state = "IDLE"
              /\ m.persisted # <<>> =>
                    m.persisted[1].answers = <<>> /\ m.persisted[1].sectionIndex = 1
              /\ \A i \in 2..Len(m.sent) : m.sent[i].section = SECTIONS[1]
        /\ ( /\ MessageStep
             /\ Stored = <<>> \/ Stored[1].state = "IDLE"
             /\ Stored' # <<>> /\ Stored'[1].state # "IDLE" ) =>
              /\ "start" \in Steps(m)
              /\ Stored'[1].answers = <<>>
              /\ Stored'[1].sectionIndex <= 1
        /\ Stored' # <<>> => AnswersOfThisRun(Stored'[1])
        /\ (MessageStep /\ "score" \in Steps(m) /\ m.persisted # <<>>) =>
              /\ m.persisted[1].state = "IDLE"
              /\ m.persisted[1].sectionIndex = Len(SECTIONS)
              /\ m.persisted = Stored'
      ]_vars

\* C5 witness: a run was started from the IDLE session a completed run left,
\* which still held that run's Answers.
C5_Witness ==
    /\ "start" \in Steps(last)
    /\ last.status = "responded"
    /\ last.loaded # <<>>
    /\ Len(last.loaded[1].answers) > 0
    /\ last.loaded[1].sectionIndex = Len(SECTIONS)

\* C6: pickNextQuestion returns null exactly when no row has the section and
\* an id outside askedIds; otherwise, whatever the draw, it returns a row of
\* the set with that section and an id outside askedIds.
C6_PickIsEligible ==
    pick.called =>
        LET eligible == {i \in 1..Len(pick.qs) :
                            /\ pick.qs[i].section = pick.section
                            /\ pick.qs[i].id \notin pick.askedIds}
        IN  /\ pick.result = NullQ <=> eligible = {}
            /\ eligible # {} => \E i \in eligible : pick.result = pick.qs[i]

\* C6 witness: a question was picked from a set in which another row of the
\* section was excluded by askedIds.
C6_Witness ==
    /\ pick.called
    /\ pick.result # NullQ
    /\ \E i \in 1..Len(pick.qs) :
          pick.qs[i].section = pick.section /\ pick.qs[i].id \in pick.askedIds

RECURSIVE SumOfSectionCounts(_, _)
SumOfSectionCounts(answers, i) ==
    IF i > Len(SECTIONS) THEN 0
    ELSE Cardinality({k \in 1..Len(answers) : answers[k].section = SECTIONS[i]})
         + SumOfSectionCounts(answers, i + 1)

\* C7: the score of a completed run has totalCorrect <= total, total is the
\* sum of the per-section Answer counts and the number of Answers, and the
\* percentage is 100 * totalCorrect / total rounded to the nearest integer
\* (halves up), or 0 when total is 0.
C7_ScoreTotals ==
    Completed(last) =>
        LET score == last.sent[Len(last.sent)].score
            answers == last.persisted[1].answers
        IN  /\ score.totalCorrect <= score.total
            /\ score.total = SumOfSectionCounts(answers, 1)
            /\ score.total = Len(answers)
            /\ IF score.total = 0 THEN score.pct = 0
               ELSE /\ 2 * score.pct * score.total - score.total <= 200 * score.totalCorrect
                    /\ 200 * score.totalCorrect < 2 * score.pct * score.total + score.total

\* C7 witness: two of three Answers correct were reported as 67%.
C7_Witness ==
    /\ Completed(last)
    /\ last.sent[Len(last.sent)].score.total = 3
    /\ last.sent[Len(last.sent)].score.totalCorrect = 2
    /\ last.sent[Len(last.sent)].score.pct = 67

\* C8: the summary holds, in section order, one line for each section whose
\* first incorrect Answer is to a question with a non-empty rationale, that
\* line carrying the rationale, and no other line.
C8_FeedbackLines ==
    Completed(last) =>
        LET lines == last.sent[Len(last.sent)].score.feedback
            answers == last.persisted[1].answers
            WrongIn(s) == {k \in 1..Len(answers) :
                              answers[k].section = s /\ ~answers[k].isCorrect}
            FirstWrong(s) == answers[CHOOSE k \in WrongIn(s) : \A j \in WrongIn(s) : k <= j]
            Rationales(s) == {sheet[i].rationale[1] : i \in
                                {i \in 1..Len(sheet) :
                                    /\ sheet[i].id = FirstWrong(s).qid
                                    /\ sheet[i].rationale # <<>>
                                    /\ sheet[i].rationale # <<"">>}}
            Due(s) == WrongIn(s) # {} /\ Rationales(s) # {}
        IN  /\ \A s \in SectionNames :
                  Cardinality({k \in 1..Len(lines) : lines[k].section = s})
                      = IF Due(s) THEN 1 ELSE 0
            /\ \A k \in 1..Len(lines) :
                  /\ lines[k].section \in SectionNames
                  /\ lines[k].rationale \in Rationales(lines[k].section)
            /\ \A j, k \in 1..Len(lines) :
                  j < k => SectionNumber(lines[j].section) < SectionNumber(lines[k].section)

\* C8 witness: five Answers, one of them wrong on a question with a
\* rationale, and exactly one feedback line.
C8_Witness ==
    /\ Completed(last)
    /\ last.sent[Len(last.sent)].score.total = 5
    /\ last.sent[Len(last.sent)].score.totalCorrect = 4
    /\ Len(last.sent[Len(last.sent)].score.feedback) = 1

\* ttl seconds, in the milliseconds of Date.now().
TtlMs == DefaultTTL * 1000

\* The message before this one ended with a setSession that resolved and the
\* process lives on: the getSession of this message is the get that follows
\* that set.
FollowsSet ==
    /\ written # <<>>
    /\ last.persisted = <<written[1].value>>
    /\ last.at = written[1].at

\* C9 as claimed, for the in-memory backend: the getSession that follows a
\* setSession returns the value set before ttl seconds have passed since
\* it, and null once ttl seconds have passed.
C9_AbsentOnceTtlElapsed ==
    [][ (MessageStep /\ ~redis /\ FollowsSet /\ last'.got) =>
            IF now - written[1].at < TtlMs
            THEN last'.loaded = <<written[1].value>>
            ELSE last'.loaded = <<>>
      ]_vars

\* C9 amended: the getSession that follows a setSession returns the value
\* set while less than ttl seconds have passed since it, and the in-memory
\* backend still returns it exactly ttl seconds after it (memGet tests
\* Date.now() > expires); a getSession more than ttl seconds after the last
\* setSession returns null, the in-memory entry is gone unless the message
\* writes a new one, and the handler works on the default IDLE session with
\* no Answer.
C9_RoundTripAndExpiry ==
    [][ (MessageStep /\ written # <<>> /\ last'.got) =>
            LET m == last'
                age == now - written[1].at
            IN  /\ (FollowsSet /\ age < TtlMs) => m.loaded = <<written[1].value>>
                /\ (FollowsSet /\ ~redis /\ age = TtlMs) => m.loaded = <<written[1].value>>
                /\ age > TtlMs =>
                      /\ m.loaded = <<>>
                      /\ (~redis /\ m.persisted = <<>>) => memStore' = <<>>
                      /\ m.steps # <<>> =>
                            m.steps[1] = "start" /\ StartRegex(Trim(m.text))
                      /\ (m.status = "responded" /\ StartRegex(Trim(m.text))) =>
                            "start" \in Steps(m)
                      /\ Steps(m) \cap {"record", "invalid", "score"} = {}
                      /\ m.persisted # <<>> =>
                            /\ m.persisted[1].answers = <<>>
                            /\ m.steps = <<>> => m.persisted[1] = DefaultSession(now)
      ]_vars

\* C9 witness: a session was set while a question was open; more than ttl
\* seconds later a start command found no session, was taken by the default
\* IDLE session, and the in-memory entry is gone.
C9_Witness ==
    /\ ~redis
    /\ written # <<>>
    /\ written[1].value.state = "WAITING_ANSWER"
    /\ last.got
    /\ last.loaded = <<>>
    /\ last.at - written[1].at > TtlMs
    /\ "start" \in Steps(last)
    /\ memStore = <<>>

\* C10: in both backends the stored session is the value last passed to a
\* setSession that resolved: it never shows a change the handler made to its
\* session object and did not persist.
C10_StoredIsLastSet ==
    Stored # <<>> => written # <<>> /\ Stored[1] = written[1].value

\* The sheet has no question of section number i.
NoQuestionFor(i) == \A k \in 1..Len(sheet) : sheet[k].section # SECTIONS[i]

\* C11: a message that finds no question for the current section announces
\* the skip of that one section and stops: sectionIndex is advanced by
\* exactly one and persisted with state ASKING, no current question and the
\* answers the dispatch found, the skip notice is the last reply, and no
\* further section is dispatched or skipped in that message even when the
\* next section is empty too.  A message that loads an ASKING session whose
\* current section has no question does just that.
C11_SkipsOneSection ==
    LET m == last
        before == IF "start" \in Steps(m) THEN 0 ELSE m.loaded[1].sectionIndex
        found == IF "start" \in Steps(m) THEN <<>> ELSE m.loaded[1].answers
    IN  /\ "skip" \in Steps(m) =>
              /\ m.steps \in {<<"skip">>, <<"start", "skip">>, <<"record", "skip">>}
              /\ m.steps = <<"skip">> => m.loaded # <<>> /\ m.loaded[1].state = "ASKING"
              /\ before < Len(SECTIONS)
              /\ NoQuestionFor(before + 1)
              /\ m.failed # "setSession" =>
                    /\ Len(m.persisted) = 1
                    /\ m.persisted[1].sectionIndex = before + 1
                    /\ m.persisted[1].state = "ASKING"
                    /\ Falsy(m.persisted[1].currentQ)
                    /\ "record" \notin Steps(m) => m.persisted[1].answers = found
              /\ m.status = "responded" =>
                    /\ m.sent[Len(m.sent)] = Skipping(SECTIONS[before + 1])
                    /\ \A i \in 1..(Len(m.sent) - 1) : m.sent[i] = Started
        /\ ( /\ m.status = "responded"
             /\ m.loaded # <<>>
             /\ m.loaded[1].state = "ASKING"
             /\ m.loaded[1].sectionIndex < Len(SECTIONS)
             /\ NoQuestionFor(m.loaded[1].sectionIndex + 1) ) => m.steps = <<"skip">>

\* C11 witness: an ASKING session skipped one section of an empty sheet, the
\* next section being empty as well.
C11_Witness ==
    /\ sheet = SheetEmpty
    /\ last.steps = <<"skip">>
    /\ last.status = "responded"
    /\ last.loaded[1].sectionIndex = 1
    /\ last.persisted[1].sectionIndex = 2
    /\ last.sent = <<Skipping(SECTIONS[2])>>

\* C12: whatever becomes of the appendAttempt call (row written, rejected,
\* never settled), a message that records an answer hands the recorder one
\* row once, does not stop at it, goes on to dispatch, skip or score, and
\* when no other call fails persists the session with that one Answer
\* appended and sends its one reply; the blocks run, replies, persisted
\* session and outcome of the handler are those of some handling of the same
\* message in which the row is written.
C12_RecorderNeverBlocks ==
    [][ (MessageStep /\ "record" \in Steps(last')) =>
            LET m == last'
                s == m.loaded[1]
                num == ParseInt(Trim(m.text))
            IN  /\ Len(m.attempts) = 1
                /\ m.attempts[1].row.qid = s.currentQ.id
                /\ m.attempts[1].row.selected = num[1]
                /\ m.failed # "appendAttempt"
                /\ m.status \in {"responded", "rejected"}
                /\ Len(m.steps) = 2
                /\ m.steps[1] = "record"
                /\ m.steps[2] \in {"ask", "skip", "score"}
                /\ m.failed = "none" =>
                      /\ m.status = "responded"
                      /\ Len(m.sent) = 1
                      /\ Len(m.persisted) = 1
                      /\ Len(m.persisted[1].answers) = Len(s.answers) + 1
                      /\ SubSeq(m.persisted[1].answers, 1, Len(s.answers)) = s.answers
                      /\ m.persisted[1].answers[Len(s.answers) + 1].qid = s.currentQ.id
                      /\ m.persisted[1].answers[Len(s.answers) + 1].selected = num[1]
                /\ \E rnd \in Randoms, fail \in Failures :
                      LET c == Webhook(s, Trim(m.text), sheet, rnd, fail, now, "written")
                      IN  /\ c.steps = m.steps
                          /\ c.sent = m.sent
                          /\ c.persisted = m.persisted
                          /\ c.status = m.status
                          /\ c.failed = m.failed
                          /\ c.attempts[1].row = m.attempts[1].row
      ]_vars

\* C12 witness: the recorder call rejected and the answer was recorded, the
\* next question asked and the session persisted all the same.
C12_Witness ==
    /\ last.steps = <<"record", "ask">>
    /\ last.attempts[1].outcome = "rejects"
    /\ last.status = "responded"
    /\ last.persisted # <<>>

\* C13: a message whose getSession, readQuestions or setSession fails sends
\* the participant no reply.
C13_NoReplyWhenStoreFails ==
    last.failed \in {"getSession", "readQuestions", "setSession"} => last.sent = <<>>

\* C14: every message the handler is done with was answered with HTTP 200.
C14_AlwaysResponds200 ==
    last.status # "none" => last.status = "responded"

\* C16: a message that does not run the start block leaves the answers of
\* the stored session as they were or appends one Answer to them, the latter
\* only for a valid answer to a session in WAITING_ANSWER; and the start
\* block does not run for a session in ASKING or WAITING_ANSWER.
C16_AnswersAppendOnly ==
    [][ MessageStep =>
            LET m == last' IN
            /\ (m.loaded # <<>> /\ m.loaded[1].state \in {"ASKING", "WAITING_ANSWER"}) =>
                  "start" \notin Steps(m)
            /\ ("start" \notin Steps(m) /\ Stored # <<>> /\ Stored' # <<>>) =>
                  LET a == Stored[1].answers
                      b == Stored'[1].answers
                  IN  \/ b = a
                      \/ /\ Len(b) = Len(a) + 1
                         /\ SubSeq(b, 1, Len(a)) = a
                         /\ "record" \in Steps(m)
                         /\ m.loaded[1].state = "WAITING_ANSWER"
                         /\ ~InvalidAnswer(ParseInt(Trim(m.text)), m.loaded[1].currentQ)
      ]_vars

\* C16 witness: a start command sent while a question was open was taken for
\* an invalid answer and the Answers of the run were kept.
C16_Witness ==
    /\ StartRegex(Trim(last.text))
    /\ last.steps = <<"invalid">>
    /\ last.loaded[1].state = "WAITING_ANSWER"
    /\ Len(last.loaded[1].answers) >= 1
    /\ Stored # <<>>
    /\ Stored[1].answers = last.loaded[1].answers

\* C17 as claimed: a message handled to the end wrote the session exactly
\* once.
C17_PersistsExactlyOnce ==
    last.status = "responded" => Len(last.persisted) = 1

\* C17 amended: a message handled to the end wrote the session exactly once,
\* except that the validation early return writes nothing; no message
\* writes it twice.
C17_PersistsOnceUnlessInvalid ==
    /\ Len(last.persisted) <= 1
    /\ last.status = "responded" =>
          Len(last.persisted) = IF last.steps = <<"invalid">> THEN 0 ELSE 1

\* C17 witness: an invalid answer got its prompt and the 200 and no
\* setSession ran.
C17_Witness ==
    /\ last.status = "responded"
    /\ last.steps = <<"invalid">>
    /\ last.sent # <<>>
    /\ last.persisted = <<>>

\* C19: while a run is in progress the stored sectionIndex is the number of
\* messages of the run, so at most SECTIONS.length; every further message
\* raises it by one until it is SECTIONS.length, and the message after that
\* sends the score and stores the IDLE session; so a participant who keeps
\* sending messages sees the run complete, SECTIONS.length messages after
\* the start message, whatever the mix of asked and skipped sections.
\* (Stated as the progress every message makes: a finite run refutes it.)
C19_RunCompletes ==
    /\ [](run > 0 => /\ Stored # <<>>
                     /\ Stored[1].state \in {"ASKING", "WAITING_ANSWER"}
                     /\ Stored[1].sectionIndex = run
                     /\ run <= Len(SECTIONS))
    /\ [][ run > 0 =>
             IF Stored[1].sectionIndex < Len(SECTIONS)
             THEN /\ Stored'[1].sectionIndex = Stored[1].sectionIndex + 1
                  /\ ~Completed(last')
             ELSE /\ Completed(last')
                  /\ Stored'[1].state = "IDLE"
                  /\ run' = 0
         ]_vars

\* C19 witness: a run over the sheet with two empty sections is complete,
\* with three sections answered.
C19_Witness ==
    /\ run = 0
    /\ Completed(last)
    /\ sheet = SheetSparse
    /\ last.sent[Len(last.sent)].score.total = 3

\* Both requests loaded the same session that waits for an answer, both
\* recorded an answer to it and both ran to their response.
BothRecordedTheSame ==
    /\ redis
    /\ \A h \in Requests :
          /\ proc[h].pc = "idle"
          /\ proc[h].status = "responded"
          /\ proc[h].loaded # <<>>
          /\ proc[h].loaded[1].state = "WAITING_ANSWER"
          /\ proc[h].steps # <<>>
          /\ proc[h].steps[1] = "record"
    /\ proc[1].loaded = proc[2].loaded

\* C15: with Redis, when two overlapping requests load the same session
\* that waits for an answer and both record an answer, each has sent its
\* reply, logged its attempt and persisted its own version, and the session
\* the store holds in the end is one of the two versions: it has one answer
\* more than the loaded session, not two, so one recorded answer is lost.
C15_LostUpdate ==
    BothRecordedTheSame =>
        /\ \A h \in Requests :
              /\ proc[h].sent # <<>>
              /\ Len(proc[h].attempts) = 1
              /\ Len(proc[h].persisted) = 1
              /\ Len(proc[h].persisted[1].answers) = Len(proc[h].loaded[1].answers) + 1
        /\ ConcStored \in {proc[h].persisted : h \in Requests}
        /\ Len(ConcStored[1].answers) = Len(proc[1].loaded[1].answers) + 1

\* The two versions differ and the store holds the second request's.
C15_Witness ==
    /\ BothRecordedTheSame
    /\ proc[1].persisted # proc[2].persisted
    /\ ConcStored = proc[2].persisted
    /\ proc[1].attempts[1].selected # proc[2].attempts[1].selected
    /\ proc[1].sent # <<>>

\* C18: the session the store holds, deliveries overlapping or not: when it
\* waits for an answer it has a current question, sectionIndex is at least
\* 1 and the current question is of section SECTIONS[sectionIndex - 1];
\* when it does not, it has no current question; and no request takes the
\* null-question branch of the validation.
C18_WaitingHasCurrentQuestion ==
    /\ ConcStored # <<>> =>
          LET s == ConcStored[1] IN
          IF s.state = "WAITING_ANSWER"
          THEN /\ ~Falsy(s.currentQ)
               /\ s.sectionIndex >= 1
               /\ s.currentQ.section = SectionAt(s.sectionIndex - 1)
          ELSE Falsy(s.currentQ)
    /\ \A h \in Requests : proc[h].status # "rejected"

\* C20: with the in-memory Map and no request in flight, sectionIndex of
\* the session is at most the number of sections and every section below
\* sectionIndex has been asked or announced as skipped in this run.
C20_NoSectionPassedOver ==
    (~redis /\ Quiescent /\ memStore # <<>>) =>
        LET o == heap[memStore[1].value] IN
        /\ o.session.sectionIndex <= Len(SECTIONS)
        /\ \A i \in 1..Len(SECTIONS) :
              i <= o.session.sectionIndex => SECTIONS[i] \in o.told

====
